---------------------------- MODULE Spec2Model ----------------------------
(***************************************************************************)
(* A model of pyglet's 4x4 matrix core (src/pyglet/matrix.py): the Mat4     *)
(* value type with its out-of-place operators and in-place helpers, and    *)
(* the two lru_cache-memoised projection factories.                        *)
(*                                                                         *)
(* Numbers come in two forms.                                              *)
(*                                                                         *)
(* Integers.  Python computes on ints exactly and on floats exactly as     *)
(* long as every value is an integer below 2^53, and 1.0 == 1, so on       *)
(* inputs whose results are integers the code's numbers are TLA+ integers. *)
(* Spec, SpecAlg and SpecCache hold such matrices; their inputs are chosen *)
(* so that every division is exact.  There cos, sin and tan are defined at *)
(* 0 only: at every other whole number of degrees one of cos and sin is    *)
(* not an integer (math.cos(math.radians(90)) is 6.1e-17), and             *)
(* create_perspective, which has no input with small integer components,   *)
(* is run on the inputs that end in ZeroDivisionError.                     *)
(*                                                                         *)
(* Doubles.  rotate at any other angle computes on IEEE-754 binary64       *)
(* values that are not integers.  The definitions named ...64 are the same *)
(* methods on doubles, each a record [sign, exp, mant] standing for        *)
(* sign * mant * 2^exp, with f64_add, f64_sub and f64_mul rounding to      *)
(* nearest, ties to even, as the hardware does.  SpecRot holds such        *)
(* matrices and runs translate, scale and rotate on them.                  *)
(*                                                                         *)
(* A Python list is a sequence; the source's 0-based index i is position   *)
(* i + 1 of the sequence (Item, SetItem and Slice do the shift).           *)
(***************************************************************************)
EXTENDS Integers, Sequences, FiniteSets

VARIABLES heap,        \* the Mat4 objects created so far: object id -> its 16 components
          orthoCache,  \* create_orthogonal's lru_cache, least recently used first
          perspCache,  \* create_perspective's lru_cache, least recently used first
          last,        \* the operation performed last and its outcome
          steps,       \* operations performed so far
          returned,    \* history: what each successful factory call returned
          recent,      \* history: per factory, the keys called since its cache was last
                       \* cleared, least recently called first
          rotated      \* history: ids of the objects rotate has been applied to, and
                       \* nothing but translate, scale and rotate since

vars == <<heap, orthoCache, perspCache, last, steps, returned, recent, rotated>>

\* ------------------------------------------------------------------ bounds

MaxSteps == 3
MaxAlgSteps == 1
MaxFresh == 128
MaxEarly == 2
MaxRotSteps == 4

\* --------------------------------------------------------- Python values

\* A Python value passed as an argument: None, a tuple or list of numbers, a
\* number, or a reference to a Mat4 object of the heap.
PyNone == [tag |-> "None", id |-> 0, vals |-> <<>>]
PyTuple(vs) == [tag |-> "tuple", id |-> 0, vals |-> vs]
PyList(vs) == [tag |-> "list", id |-> 0, vals |-> vs]
PyInt(n) == [tag |-> "int", id |-> 0, vals |-> <<n>>]
PyMat4(vs) == [tag |-> "Mat4", id |-> 0, vals |-> vs]
Ref(i) == [tag |-> "Mat4", id |-> i, vals |-> <<>>]

\* The outcome of a call: the value returned, or the exception raised.  For a
\* method that works in place, val is self as the call leaves it, which Fail
\* records with the exception.
Return(v) == [exc |-> "", val |-> v]
Raise(e) == [exc |-> e, val |-> <<>>]
Fail(e, self) == [exc |-> e, val |-> self]

AssertValues == "AssertionError: A 4x4 Matrix requires 16 values"
AssertAdd == "AssertionError: Only addition with Mat4 types is supported"
AssertSub == "AssertionError: Only subtraction from Mat4 types is supported"
AssertMul == "AssertionError: Only multiplication with Mat4 types is supported"
ZeroDivisionError == "ZeroDivisionError"
IndexError == "IndexError: list index out of range"
IndexErrorAssign == "IndexError: list assignment index out of range"

Min(a, b) == IF a < b THEN a ELSE b
Max(a, b) == IF a < b THEN b ELSE a

\* self[i], and self after self[i] = v
Item(self, i) == self[i + 1]
SetItem(self, i, v) == [self EXCEPT ![i + 1] = v]

\* seq[start:stop:step] for 0 <= start <= stop, step > 0: the bounds are cut to
\* len(seq)
Slice(seq, start, stop, step) ==
    LET lo == Min(start, Len(seq))
        hi == Min(stop, Len(seq))
    IN  [j \in 1..((hi - lo + step - 1) \div step) |-> seq[lo + (j - 1) * step + 1]]

\* seq without its element at position i (from 1)
Remove(seq, i) == [j \in 1..(Len(seq) - 1) |-> IF j < i THEN seq[j] ELSE seq[j + 1]]

\* zip(a, b): the pairs up to the shorter length
Zip(a, b) ==
    [i \in 1..(IF Len(a) < Len(b) THEN Len(a) ELSE Len(b)) |-> <<a[i], b[i]>>]

\* sum(seq), from 0
RECURSIVE Sum(_)
Sum(seq) == IF seq = <<>> THEN 0 ELSE seq[1] + Sum(Tail(seq))

\* sum(s * o for s, o in zip(r, c))
SumProd(r, c) == LET z == Zip(r, c) IN Sum([i \in 1..Len(z) |-> z[i][1] * z[i][2]])

\* a / b for b # 0 dividing a: the exact quotient
Abs(n) == IF n < 0 THEN -n ELSE n
TrueDiv(a, b) ==
    IF (a >= 0) = (b > 0) THEN Abs(a) \div Abs(b) ELSE -(Abs(a) \div Abs(b))

\* isinstance(other, Mat4)
isinstance_Mat4(other) == other.tag = "Mat4"

\* ------------------------------------------------------------------ Mat4

IdentityValues == <<1, 0, 0, 0,
                    0, 1, 0, 0,
                    0, 0, 1, 0,
                    0, 0, 0, 1>>

\* Mat4.__init__(values): the new object's components, or the error of the
\* assertion (of len(values), when values is a number)
Mat4_init(values) ==
    IF values.tag = "int"
    THEN Raise("TypeError: object of type 'int' has no len()")
    ELSE IF ~(values.tag = "None" \/ Len(values.vals) = 16)
    THEN Raise(AssertValues)
    ELSE Return(IF values.tag = "None" \/ Len(values.vals) = 0
                THEN IdentityValues
                ELSE values.vals)

\* Mat4.translate(x, y, z): the three statements in turn, the first one whose
\* index self lacks raising IndexError
Mat4_translate(self, x, y, z) ==
    IF Len(self) <= 12 THEN Fail(IndexError, self)
    ELSE LET s1 == SetItem(self, 12, Item(self, 12) + x)
         IN  IF Len(s1) <= 13 THEN Fail(IndexError, s1)
             ELSE LET s2 == SetItem(s1, 13, Item(s1, 13) + y)
                  IN  IF Len(s2) <= 14 THEN Fail(IndexError, s2)
                      ELSE Return(SetItem(s2, 14, Item(s2, 14) + z))

\* Mat4.scale(value): the three statements in turn, the first one whose index
\* self lacks raising IndexError
Mat4_scale(self, value) ==
    IF Len(self) <= 0 THEN Fail(IndexError, self)
    ELSE LET s1 == SetItem(self, 0, Item(self, 0) * value)
         IN  IF Len(s1) <= 5 THEN Fail(IndexError, s1)
             ELSE LET s2 == SetItem(s1, 5, Item(s1, 5) * value)
                  IN  IF Len(s2) <= 10 THEN Fail(IndexError, s2)
                      ELSE Return(SetItem(s2, 10, Item(s2, 10) * value))

\* a mutant of Mat4_sub: the operands are taken in the other order
Mat4_sub_reversed(self, other) ==
    IF other.tag # "Mat4" THEN Raise(AssertSub)
    ELSE Return([i \in 1..16 |-> other.vals[i] - self[i]])

\* Mat4.__add__, __sub__, __mul__: other is the operand's Python value
Mat4_add(self, other) ==
    IF ~isinstance_Mat4(other) THEN Raise(AssertAdd)
    ELSE LET z == Zip(self, other.vals)
         IN  Mat4_init(PyTuple([i \in 1..Len(z) |-> z[i][1] + z[i][2]]))

Mat4_sub(self, other) ==
    IF ~isinstance_Mat4(other) THEN Raise(AssertSub)
    ELSE LET z == Zip(self, other.vals)
         IN  Mat4_init(PyTuple([i \in 1..Len(z) |-> z[i][1] - z[i][2]]))

Mat4_mul(self, other) ==
    IF ~isinstance_Mat4(other) THEN Raise(AssertMul)
    ELSE LET z == Zip(self, other.vals)
         IN  Mat4_init(PyTuple([i \in 1..Len(z) |-> z[i][1] * z[i][2]]))

\* a mutant of Mat4_matmul: the elementwise product (* for @)
Mat4_matmul_elementwise(self, other) ==
    IF other.tag # "Mat4" THEN Raise(AssertMul)
    ELSE Return([i \in 1..16 |-> self[i] * other.vals[i]])

\* a mutant of Mat4_matmul: the rows of other are taken for its columns
Mat4_matmul_rows(self, other) ==
    IF other.tag # "Mat4" THEN Raise(AssertMul)
    ELSE Return([n \in 1..16 |->
                    LET r == (n - 1) \div 4
                        c == (n - 1) % 4
                    IN  Sum([k \in 1..4 |-> self[4 * r + k] * other.vals[4 * c + k]])])

\* Mat4.__matmul__
Mat4_matmul(self, other) ==
    IF ~isinstance_Mat4(other) THEN Raise(AssertMul)
    ELSE LET r0 == Slice(self, 0, 4, 1)
             r1 == Slice(self, 4, 8, 1)
             r2 == Slice(self, 8, 12, 1)
             r3 == Slice(self, 12, 16, 1)
             c0 == Slice(other.vals, 0, Len(other.vals), 4)
             c1 == Slice(other.vals, 1, Len(other.vals), 4)
             c2 == Slice(other.vals, 2, Len(other.vals), 4)
             c3 == Slice(other.vals, 3, Len(other.vals), 4)
         IN  Mat4_init(PyTuple(<<
                 SumProd(r0, c0), SumProd(r0, c1), SumProd(r0, c2), SumProd(r0, c3),
                 SumProd(r1, c0), SumProd(r1, c1), SumProd(r1, c2), SumProd(r1, c3),
                 SumProd(r2, c0), SumProd(r2, c1), SumProd(r2, c2), SumProd(r2, c3),
                 SumProd(r3, c0), SumProd(r3, c1), SumProd(r3, c2), SumProd(r3, c3)>>))

\* The methods Mat4 inherits from list that change self.  Each gives self as
\* the call leaves it, with the exception it raised if any.

\* list.__iadd__(other) (self += other) and list.extend(other): self extended
\* by the items of other, or the error of iterating what is not iterable
list_iadd(self, other) ==
    IF other.tag = "int" THEN Fail("TypeError: 'int' object is not iterable", self)
    ELSE IF other.tag = "None" THEN Fail("TypeError: 'NoneType' object is not iterable", self)
    ELSE Return(self \o other.vals)

\* list.__imul__(n), called as a method (self *= n runs Mat4.__mul__): self
\* repeated n times
list_imul(self, n) ==
    IF n.tag = "int"
    THEN Return(IF n.vals[1] <= 0 THEN <<>>
                ELSE [i \in 1..(Len(self) * n.vals[1]) |-> self[((i - 1) % Len(self)) + 1]])
    ELSE Fail(CASE n.tag = "None" ->
                     "TypeError: 'NoneType' object cannot be interpreted as an integer"
                [] n.tag = "list" ->
                     "TypeError: 'list' object cannot be interpreted as an integer"
                [] n.tag = "tuple" ->
                     "TypeError: 'tuple' object cannot be interpreted as an integer"
                [] n.tag = "Mat4" ->
                     "TypeError: 'Mat4' object cannot be interpreted as an integer",
              self)

\* list.append(v)
list_append(self, v) == Return(Append(self, v))

\* list.insert(i, v): before position i, cut to the ends of the list
list_insert(self, i, v) ==
    LET k == IF i < 0 THEN Max(i + Len(self), 0) ELSE Min(i, Len(self))
    IN  Return(SubSeq(self, 1, k) \o <<v>> \o SubSeq(self, k + 1, Len(self)))

\* list.pop(): without the last item
list_pop(self) ==
    IF self = <<>> THEN Fail("IndexError: pop from empty list", self)
    ELSE Return(SubSeq(self, 1, Len(self) - 1))

\* list.remove(v): without the first item equal to v
list_remove(self, v) ==
    IF \E i \in 1..Len(self) : self[i] = v
    THEN Return(Remove(self, CHOOSE i \in 1..Len(self) :
                          self[i] = v /\ \A j \in 1..(i - 1) : self[j] # v))
    ELSE Fail("ValueError: list.remove(x): x not in list", self)

\* list.clear()
list_clear(self) == Return(<<>>)

\* list.sort(): ascending
RECURSIVE Sorted(_)
Sorted(seq) ==
    IF seq = <<>> THEN <<>>
    ELSE LET rest == Sorted(Tail(seq))
             k == Cardinality({i \in 1..Len(rest) : rest[i] < Head(seq)})
         IN  SubSeq(rest, 1, k) \o <<Head(seq)>> \o SubSeq(rest, k + 1, Len(rest))
list_sort(self) == Return(Sorted(self))

\* list.reverse()
list_reverse(self) == Return([i \in 1..Len(self) |-> self[Len(self) + 1 - i]])

\* self[i] = v and del self[i], i counted from the end when negative
list_setitem(self, i, v) ==
    LET k == IF i < 0 THEN i + Len(self) ELSE i
    IN  IF k < 0 \/ k >= Len(self) THEN Fail(IndexErrorAssign, self)
        ELSE Return(SetItem(self, k, v))

list_delitem(self, i) ==
    LET k == IF i < 0 THEN i + Len(self) ELSE i
    IN  IF k < 0 \/ k >= Len(self) THEN Fail(IndexErrorAssign, self)
        ELSE Return(Remove(self, k + 1))

\* self[:] = values
list_setslice(self, values) ==
    IF values.tag \in {"int", "None"} THEN Fail("TypeError: can only assign an iterable", self)
    ELSE Return(values.vals)

\* self.__init__(values), Mat4.__init__ on a matrix that exists: when the
\* assertion fails self is as it was; otherwise list.__init__ empties self and
\* then extends it with the items of values, which finds nothing to read when
\* values is self itself (aliased)
Mat4_init_again(self, values, aliased) ==
    LET r == Mat4_init(values)
    IN  IF r.exc # "" THEN Fail(r.exc, self)
        ELSE IF aliased THEN Return(<<>>)
        ELSE r

\* math.cos(math.radians(angle)) and math.sin(math.radians(angle)) at angle 0,
\* the one whole number of degrees where both are integers
Angles == {0}
cos(angle) == CASE angle = 0 -> 1
sin(angle) == CASE angle = 0 -> 0

\* the matrix rmat that Mat4.rotate builds from c and s, the cos and sin of the
\* angle
rmat(c, s, x, y, z) ==
    LET tempx == (1 - c) * x
        tempy == (1 - c) * y
        tempz == (1 - c) * z
        ra == c + tempx * x
        rb == 0 + tempx * y + s * z
        rc == 0 + tempx * z - s * y
        re == 0 + tempy * x - s * z
        rf == c + tempy * y
        rg == 0 + tempy * z + s * x
        ri == 0 + tempz * x + s * y
        rj == 0 + tempz * y - s * x
        rk == c + tempz * z
    IN  Mat4_init(PyTuple(<<ra, rb, rc, 0, re, rf, rg, 0, ri, rj, rk, 0, 0, 0, 0, 0>>)).val

\* Mat4.rotate(angle, x, y, z): self afterwards (self[:] = self @ rmat)
Mat4_rotate(self, angle, x, y, z) ==
    list_setslice(self,
        PyMat4(Mat4_matmul(self, PyMat4(rmat(cos(angle), sin(angle), x, y, z))).val)).val


\* ------------------------------------------------------- IEEE-754 doubles

\* A natural number of any size is the sequence of its digits in base Limb,
\* least significant first.
Limb == 2^14

\* the digits of the number whose digits, before carrying, are d, plus carry c
RECURSIVE nat_carry(_, _)
nat_carry(d, c) ==
    IF d = <<>>
    THEN IF c = 0 THEN <<>> ELSE <<c % Limb>> \o nat_carry(<<>>, c \div Limb)
    ELSE <<(d[1] + c) % Limb>> \o nat_carry(Tail(d), (d[1] + c) \div Limb)

\* without its leading zero digits
RECURSIVE nat_trim(_)
nat_trim(n) ==
    IF n # <<>> /\ n[Len(n)] = 0 THEN nat_trim(SubSeq(n, 1, Len(n) - 1)) ELSE n

nat_digit(n, i) == IF 1 <= i /\ i <= Len(n) THEN n[i] ELSE 0

\* a * b
nat_mul(a, b) ==
    nat_carry([k \in 1..(Len(a) + Len(b)) |->
                  Sum([i \in 1..Len(a) |-> a[i] * nat_digit(b, k + 1 - i)])], 0)

\* the sign of the number whose digits, before carrying, are d, each the
\* difference or the sum of two digits: that of its most significant digit
\* that is not 0
nat_sign(d) ==
    IF \A i \in 1..Len(d) : d[i] = 0 THEN 0
    ELSE IF \E i \in 1..Len(d) : d[i] < 0 /\ \A j \in (i + 1)..Len(d) : d[j] = 0 THEN -1
    ELSE 1

\* the number of binary digits of n
nat_bits(n) ==
    LET t == nat_trim(n)
    IN  IF t = <<>> THEN 0
        ELSE 14 * (Len(t) - 1)
               + (CHOOSE k \in 1..14 : 2^(k - 1) <= t[Len(t)] /\ t[Len(t)] < 2^k)

\* n * 2^d, n \div 2^d, binary digit k of n, and whether n % 2^d is not 0
nat_shl(n, d) ==
    [i \in 1..(d \div 14) |-> 0] \o nat_carry([i \in 1..Len(n) |-> n[i] * 2^(d % 14)], 0)
nat_shr(n, d) ==
    LET q == d \div 14
        r == d % 14
    IN  [i \in 1..Max(Len(n) - q, 0) |->
            (n[i + q] \div 2^r) + (nat_digit(n, i + q + 1) % 2^r) * 2^(14 - r)]
nat_bit(n, k) == (nat_digit(n, (k \div 14) + 1) \div 2^(k % 14)) % 2
nat_low(n, d) ==
    \E i \in 1..Len(n) :
        n[i] % (IF i <= d \div 14 THEN Limb
                ELSE IF i = (d \div 14) + 1 THEN 2^(d % 14) ELSE 1) # 0

\* A double is 0, or sign * mant * 2^exp with sign 1 or -1 and mant a natural
\* number of exactly 53 binary digits, held in four digits.  (0.0 and -0.0,
\* which are equal, are the one 0.)  Doubles with exp outside -1074..971
\* (subnormal, infinite) are not represented.
f64_zero == [sign |-> 0, exp |-> 0, mant |-> <<0, 0, 0, 0>>]

\* sign * q * 2^e, for q of 53 binary digits or q = 2^53
f64_pack(sign, q, e) ==
    CASE nat_digit(q, 4) < 2^11 /\ -1074 <= e /\ e <= 971 ->
             [sign |-> sign, exp |-> e, mant |-> [i \in 1..4 |-> nat_digit(q, i)]]
      [] nat_digit(q, 4) = 2^11 /\ -1074 <= e /\ e < 971 ->
             [sign |-> sign, exp |-> e + 1, mant |-> <<0, 0, 0, 2^10>>]

\* the double nearest to sign * n * 2^e, ties to the even mantissa, for n of
\* L binary digits
f64_nearest(sign, n, e, L) ==
    IF L = 0 THEN f64_zero
    ELSE IF L <= 53 THEN f64_pack(sign, nat_shl(n, 53 - L), e - (53 - L))
    ELSE f64_pack(sign,
                  nat_carry(nat_shr(n, L - 53),
                            IF /\ nat_bit(n, L - 54) = 1
                               /\ (nat_low(n, L - 54) \/ nat_bit(n, L - 53) = 1)
                            THEN 1 ELSE 0),
                  e + (L - 53))
f64_round(sign, n, e) == f64_nearest(sign, n, e, nat_bits(n))

\* float(n) for an int n, and the list of the floats of a list of ints
f64_from_int(n) == f64_round(IF n < 0 THEN -1 ELSE 1, nat_carry(<<Abs(n)>>, 0), 0)
f64_list(seq) == [i \in 1..Len(seq) |-> f64_from_int(seq[i])]

\* x * y, x + y and x - y on doubles
f64_mul(x, y) ==
    IF x.sign = 0 \/ y.sign = 0 THEN f64_zero
    ELSE f64_round(x.sign * y.sign, nat_mul(x.mant, y.mant), x.exp + y.exp)
f64_add(x, y) ==
    IF x.sign = 0 THEN y
    ELSE IF y.sign = 0 THEN x
    ELSE LET e == Min(x.exp, y.exp)
             X == nat_shl(x.mant, x.exp - e)
             Y == nat_shl(y.mant, y.exp - e)
             d == [i \in 1..Max(Len(X), Len(Y)) |->
                      x.sign * nat_digit(X, i) + y.sign * nat_digit(Y, i)]
         IN  f64_round(nat_sign(d), nat_carry([i \in 1..Len(d) |-> nat_sign(d) * d[i]], 0), e)
f64_sub(x, y) == f64_add(x, [y EXCEPT !.sign = -y.sign])

\* sum(s * o for s, o in zip(r, c)) on doubles: from 0, the products of the
\* pairs added in order
RECURSIVE SumProd64(_, _)
SumProd64(r, c) ==
    LET n == Min(Len(r), Len(c))
    IN  IF n = 0 THEN f64_zero
        ELSE f64_add(SumProd64(SubSeq(r, 1, n - 1), SubSeq(c, 1, n - 1)), f64_mul(r[n], c[n]))

\* Mat4.translate(x, y, z) and Mat4.scale(value) on a list of doubles, with
\* int arguments
Mat4_translate64(self, x, y, z) ==
    IF Len(self) <= 12 THEN Fail(IndexError, self)
    ELSE LET s1 == SetItem(self, 12, f64_add(Item(self, 12), f64_from_int(x)))
         IN  IF Len(s1) <= 13 THEN Fail(IndexError, s1)
             ELSE LET s2 == SetItem(s1, 13, f64_add(Item(s1, 13), f64_from_int(y)))
                  IN  IF Len(s2) <= 14 THEN Fail(IndexError, s2)
                      ELSE Return(SetItem(s2, 14, f64_add(Item(s2, 14), f64_from_int(z))))

Mat4_scale64(self, value) ==
    IF Len(self) <= 0 THEN Fail(IndexError, self)
    ELSE LET s1 == SetItem(self, 0, f64_mul(Item(self, 0), f64_from_int(value)))
         IN  IF Len(s1) <= 5 THEN Fail(IndexError, s1)
             ELSE LET s2 == SetItem(s1, 5, f64_mul(Item(s1, 5), f64_from_int(value)))
                  IN  IF Len(s2) <= 10 THEN Fail(IndexError, s2)
                      ELSE Return(SetItem(s2, 10, f64_mul(Item(s2, 10), f64_from_int(value))))

\* Mat4.__matmul__ on lists of doubles
Mat4_matmul64(self, other) ==
    IF ~isinstance_Mat4(other) THEN Raise(AssertMul)
    ELSE LET r0 == Slice(self, 0, 4, 1)
             r1 == Slice(self, 4, 8, 1)
             r2 == Slice(self, 8, 12, 1)
             r3 == Slice(self, 12, 16, 1)
             c0 == Slice(other.vals, 0, Len(other.vals), 4)
             c1 == Slice(other.vals, 1, Len(other.vals), 4)
             c2 == Slice(other.vals, 2, Len(other.vals), 4)
             c3 == Slice(other.vals, 3, Len(other.vals), 4)
         IN  Mat4_init(PyTuple(<<
                 SumProd64(r0, c0), SumProd64(r0, c1), SumProd64(r0, c2), SumProd64(r0, c3),
                 SumProd64(r1, c0), SumProd64(r1, c1), SumProd64(r1, c2), SumProd64(r1, c3),
                 SumProd64(r2, c0), SumProd64(r2, c1), SumProd64(r2, c2), SumProd64(r2, c3),
                 SumProd64(r3, c0), SumProd64(r3, c1), SumProd64(r3, c2), SumProd64(r3, c3)>>))

\* math.cos(math.radians(angle)) and math.sin(math.radians(angle)), the doubles
\* the C library returns, at 0, 45 and 90 degrees
cos64(angle) ==
    CASE angle = 0 -> [sign |-> 1, exp |-> -52, mant |-> <<0, 0, 0, 1024>>]
         [] angle = 45 -> [sign |-> 1, exp |-> -53, mant |-> <<15309, 6652, 2534, 1448>>]
         [] angle = 90 -> [sign |-> 1, exp |-> -106, mant |-> <<7175, 3153, 8803, 1129>>]
sin64(angle) ==
    CASE angle = 0 -> f64_zero
         [] angle = 45 -> [sign |-> 1, exp |-> -53, mant |-> <<15308, 6652, 2534, 1448>>]
         [] angle = 90 -> [sign |-> 1, exp |-> -52, mant |-> <<0, 0, 0, 1024>>]

\* a mutant of rmat64: the fourth row is (0, 0, 0, 1), as in an affine rotation
rmat_affine64(c, s, x, y, z) ==
    LET X == f64_from_int(x)
        Y == f64_from_int(y)
        Z == f64_from_int(z)
        t == f64_sub(f64_from_int(1), c)
    IN  <<f64_add(c, f64_mul(f64_mul(t, X), X)),
          f64_add(f64_mul(f64_mul(t, X), Y), f64_mul(s, Z)),
          f64_sub(f64_mul(f64_mul(t, X), Z), f64_mul(s, Y)),
          f64_zero,
          f64_sub(f64_mul(f64_mul(t, Y), X), f64_mul(s, Z)),
          f64_add(c, f64_mul(f64_mul(t, Y), Y)),
          f64_add(f64_mul(f64_mul(t, Y), Z), f64_mul(s, X)),
          f64_zero,
          f64_add(f64_mul(f64_mul(t, Z), X), f64_mul(s, Y)),
          f64_sub(f64_mul(f64_mul(t, Z), Y), f64_mul(s, X)),
          f64_add(c, f64_mul(f64_mul(t, Z), Z)),
          f64_zero,
          f64_zero, f64_zero, f64_zero, f64_from_int(1)>>

\* the matrix rmat that Mat4.rotate builds from the doubles c and s and the int
\* axis x, y, z
rmat64(c, s, x, y, z) ==
    LET X == f64_from_int(x)
        Y == f64_from_int(y)
        Z == f64_from_int(z)
        tempx == f64_mul(f64_sub(f64_from_int(1), c), X)
        tempy == f64_mul(f64_sub(f64_from_int(1), c), Y)
        tempz == f64_mul(f64_sub(f64_from_int(1), c), Z)
        ra == f64_add(c, f64_mul(tempx, X))
        rb == f64_add(f64_add(f64_from_int(0), f64_mul(tempx, Y)), f64_mul(s, Z))
        rc == f64_sub(f64_add(f64_from_int(0), f64_mul(tempx, Z)), f64_mul(s, Y))
        re == f64_sub(f64_add(f64_from_int(0), f64_mul(tempy, X)), f64_mul(s, Z))
        rf == f64_add(c, f64_mul(tempy, Y))
        rg == f64_add(f64_add(f64_from_int(0), f64_mul(tempy, Z)), f64_mul(s, X))
        ri == f64_add(f64_add(f64_from_int(0), f64_mul(tempz, X)), f64_mul(s, Y))
        rj == f64_sub(f64_add(f64_from_int(0), f64_mul(tempz, Y)), f64_mul(s, X))
        rk == f64_add(c, f64_mul(tempz, Z))
        O == f64_from_int(0)
    IN  Mat4_init(PyTuple(<<ra, rb, rc, O, re, rf, rg, O, ri, rj, rk, O, O, O, O, O>>)).val

\* a mutant of Mat4_rotate64: rmat @ self
Mat4_rotate_pre64(self, angle, x, y, z) ==
    Mat4_matmul64(rmat64(cos64(angle), sin64(angle), x, y, z), PyMat4(self)).val

\* Mat4.rotate(angle, x, y, z) on a list of doubles: self afterwards
Mat4_rotate64(self, angle, x, y, z) ==
    list_setslice(self,
        PyMat4(Mat4_matmul64(self, PyMat4(rmat64(cos64(angle), sin64(angle), x, y, z))).val)).val


\* ------------------------------------------------------ projection factories

\* create_orthogonal(left, right, bottom, top, znear, zfar), uncached
create_orthogonal(left, right, bottom, top, znear, zfar) ==
    LET width == right - left
        height == top - bottom
        depth == zfar - znear
    IN  IF width = 0 \/ height = 0 \/ depth = 0 THEN Raise(ZeroDivisionError)
        ELSE LET sx == TrueDiv(2, width)
                 sy == TrueDiv(2, height)
                 sz == TrueDiv(2, -depth)
                 tx == TrueDiv(-(right + left), width)
                 ty == TrueDiv(-(top + bottom), height)
                 tz == TrueDiv(-(zfar + znear), depth)
             IN  Mat4_init(PyTuple(<<sx, 0, 0, 0,
                                     0, sy, 0, 0,
                                     0, 0, sz, 0,
                                     tx, ty, tz, 1>>))

\* math.tan(fov * math.pi / 360) at fov 0
tan(fov) == CASE fov = 0 -> 0

\* create_perspective(left, right, bottom, top, znear, zfar, fov), uncached
create_perspective(left, right, bottom, top, znear, zfar, fov) ==
    LET width == right - left
        height == top - bottom
        xymax == znear * tan(fov)
        ymin == -xymax
        xmin == -xymax
        width2 == xymax - xmin
        height2 == xymax - ymin
        depth == zfar - znear
    IN  IF height = 0 \/ depth = 0 \/ width2 = 0 \/ height2 = 0 \/ width = 0
        THEN Raise(ZeroDivisionError)
        ELSE LET aspect == TrueDiv(width, height)
                 q == TrueDiv(-(zfar + znear), depth)
                 qn == TrueDiv(-2 * zfar * znear, depth)
                 w == TrueDiv(TrueDiv(2 * znear, width2), aspect)
                 h == TrueDiv(2 * znear, height2)
             IN  Mat4_init(PyTuple(<<w, 0, 0, 0,
                                     0, h, 0, 0,
                                     0, 0, q, -1,
                                     0, 0, qn, 0>>))

\* functools.lru_cache(): maxsize defaults to 128.  A cache is the sequence of
\* its entries [key, id], least recently used first.
maxsize == 128

lru_index(cache, key) ==
    IF \E i \in 1..Len(cache) : cache[i].key = key
    THEN CHOOSE i \in 1..Len(cache) : cache[i].key = key
    ELSE 0

\* cache_clear(): no entry is left
lru_clear(cache) == <<>>

\* a hit: the entry becomes the most recently used
lru_hit(cache, i) == Append(Remove(cache, i), cache[i])

\* a mutant of lru_miss: the cache is taken to be full one entry early
lru_miss_early(cache, key, id) ==
    IF Len(cache) + 1 >= 128
    THEN Append(Tail(cache), [key |-> key, id |-> id])
    ELSE Append(cache, [key |-> key, id |-> id])

\* a miss: the new entry is stored, in place of the least recently used one
\* when the cache is full
lru_miss(cache, key, id) ==
    IF Len(cache) >= maxsize
    THEN Append(Tail(cache), [key |-> key, id |-> id])
    ELSE Append(cache, [key |-> key, id |-> id])


\* ------------------------------------------------------------------ state

NoOp == [op |-> "", recv |-> 0, other |-> PyNone, args |-> <<>>, exc |-> "", result |-> 0]

\* the record of an operation: on receiver recv (an id, 0 when there is none),
\* with operand other and numeric arguments args, ending in exception exc ("" when
\* it returned) and returning the object result (0 when it returned no object)
Op(op, recv, other, args, exc, result) ==
    [op |-> op, recv |-> recv, other |-> other, args |-> args, exc |-> exc, result |-> result]

Init ==
    /\ heap = <<>>
    /\ orthoCache = <<>>
    /\ perspCache = <<>>
    /\ last = NoOp
    /\ steps = 0
    /\ returned = {}
    /\ recent = [create_orthogonal |-> <<>>, create_perspective |-> <<>>]
    /\ rotated = {}

\* the operand as the callee sees it: a reference to a Mat4 is that object
Deref(other) == IF other.id # 0 THEN PyMat4(heap[other.id]) ELSE other

\* --------------------------------------------------------------- actions

\* m = Mat4(values)
Construct(values) ==
    LET r == Mat4_init(Deref(values))
    IN  /\ heap' = IF r.exc = "" THEN Append(heap, r.val) ELSE heap
        /\ last' = Op("Mat4", 0, values, <<>>, r.exc, IF r.exc = "" THEN Len(heap) + 1 ELSE 0)
        /\ UNCHANGED <<orthoCache, perspCache, returned, recent, rotated>>

\* heap[id].translate(x, y, z)
Translate(id, x, y, z) ==
    LET r == Mat4_translate(heap[id], x, y, z)
    IN  /\ heap' = [heap EXCEPT ![id] = r.val]
        /\ last' = Op("translate", id, PyNone, <<x, y, z>>, r.exc, 0)
        /\ UNCHANGED <<orthoCache, perspCache, returned, recent, rotated>>

\* heap[id].scale(value)
Scale(id, value) ==
    LET r == Mat4_scale(heap[id], value)
    IN  /\ heap' = [heap EXCEPT ![id] = r.val]
        /\ last' = Op("scale", id, PyNone, <<value>>, r.exc, 0)
        /\ UNCHANGED <<orthoCache, perspCache, returned, recent, rotated>>

\* heap[id].rotate(angle, x, y, z)
Rotate(id, angle, x, y, z) ==
    /\ heap' = [heap EXCEPT ![id] = Mat4_rotate(heap[id], angle, x, y, z)]
    /\ last' = Op("rotate", id, PyNone, <<angle, x, y, z>>, "", 0)
    /\ rotated' = rotated \cup {id}
    /\ UNCHANGED <<orthoCache, perspCache, returned, recent>>

\* heap[id].translate(x, y, z), heap[id].scale(value) and
\* heap[id].rotate(angle, x, y, z) on a matrix of doubles
Translate64(id, x, y, z) ==
    LET r == Mat4_translate64(heap[id], x, y, z)
    IN  /\ heap' = [heap EXCEPT ![id] = r.val]
        /\ last' = Op("translate", id, PyNone, <<x, y, z>>, r.exc, 0)
        /\ UNCHANGED <<orthoCache, perspCache, returned, recent, rotated>>

Scale64(id, value) ==
    LET r == Mat4_scale64(heap[id], value)
    IN  /\ heap' = [heap EXCEPT ![id] = r.val]
        /\ last' = Op("scale", id, PyNone, <<value>>, r.exc, 0)
        /\ UNCHANGED <<orthoCache, perspCache, returned, recent, rotated>>

Rotate64(id, angle, x, y, z) ==
    /\ heap' = [heap EXCEPT ![id] = Mat4_rotate64(heap[id], angle, x, y, z)]
    /\ last' = Op("rotate", id, PyNone, <<angle, x, y, z>>, "", 0)
    /\ rotated' = rotated \cup {id}
    /\ UNCHANGED <<orthoCache, perspCache, returned, recent>>

\* the caller's side of a binary operator that ended in r
Binary(op, id, other, r) ==
    /\ heap' = IF r.exc = "" THEN Append(heap, r.val) ELSE heap
    /\ last' = Op(op, id, other, <<>>, r.exc, IF r.exc = "" THEN Len(heap) + 1 ELSE 0)
    /\ UNCHANGED <<orthoCache, perspCache, returned, recent, rotated>>

\* heap[id] + other, heap[id] - other, heap[id] * other, heap[id] @ other
Add(id, other) == Binary("add", id, other, Mat4_add(heap[id], Deref(other)))
Sub(id, other) == Binary("sub", id, other, Mat4_sub(heap[id], Deref(other)))
Mul(id, other) == Binary("mul", id, other, Mat4_mul(heap[id], Deref(other)))
MatMul(id, other) == Binary("matmul", id, other, Mat4_matmul(heap[id], Deref(other)))

\* the caller's side of a method inherited from list that works on heap[id] in
\* place and ended in r
Mutate(op, id, other, args, r) ==
    /\ heap' = [heap EXCEPT ![id] = r.val]
    /\ last' = Op(op, id, other, args, r.exc, 0)
    /\ rotated' = rotated \ {id}
    /\ UNCHANGED <<orthoCache, perspCache, returned, recent>>

\* heap[id] += other, heap[id].__imul__(n), heap[id].append(v),
\* heap[id].insert(i, v), heap[id].pop(), heap[id].remove(v), heap[id].clear(),
\* heap[id].sort(), heap[id].reverse(), heap[id][i] = v, del heap[id][i],
\* heap[id][:] = values
IAdd(id, other) == Mutate("iadd", id, other, <<>>, list_iadd(heap[id], Deref(other)))
IMul(id, n) == Mutate("imul", id, n, <<>>, list_imul(heap[id], Deref(n)))
ListAppend(id, v) == Mutate("append", id, PyNone, <<v>>, list_append(heap[id], v))
ListInsert(id, i, v) == Mutate("insert", id, PyNone, <<i, v>>, list_insert(heap[id], i, v))
ListPop(id) == Mutate("pop", id, PyNone, <<>>, list_pop(heap[id]))
ListRemove(id, v) == Mutate("remove", id, PyNone, <<v>>, list_remove(heap[id], v))
ListClear(id) == Mutate("clear", id, PyNone, <<>>, list_clear(heap[id]))
ListSort(id) == Mutate("sort", id, PyNone, <<>>, list_sort(heap[id]))
ListReverse(id) == Mutate("reverse", id, PyNone, <<>>, list_reverse(heap[id]))
SetItemAt(id, i, v) == Mutate("setitem", id, PyNone, <<i, v>>, list_setitem(heap[id], i, v))
DelItemAt(id, i) == Mutate("delitem", id, PyNone, <<i>>, list_delitem(heap[id], i))
SetSlice(id, values) ==
    Mutate("setslice", id, values, <<>>, list_setslice(heap[id], Deref(values)))

\* heap[id].__init__(values): Mat4.__init__ on an object that exists
ReInit(id, values) ==
    Mutate("__init__", id, values, <<>>,
           Mat4_init_again(heap[id], Deref(values), values.id = id))

\* history: a successful call of factory fn with key returned object id
Called(fn, key, id, newHeap) ==
    /\ returned' = returned \cup {[fn |-> fn, key |-> key, id |-> id, comps |-> newHeap[id]]}
    /\ recent' = [recent EXCEPT ![fn] =
                    LET i == lru_index(@, key)
                    IN  Append(IF i = 0 THEN @ ELSE Remove(@, i), [key |-> key, id |-> id])]

\* create_orthogonal(*key) through its lru_cache
CreateOrthogonal(key) ==
    LET i == lru_index(orthoCache, key)
        r == create_orthogonal(key[1], key[2], key[3], key[4], key[5], key[6])
    IN  /\ IF i # 0
           THEN /\ orthoCache' = lru_hit(orthoCache, i)
                /\ heap' = heap
                /\ last' = Op("create_orthogonal", 0, PyNone, key, "", orthoCache[i].id)
                /\ Called("create_orthogonal", key, orthoCache[i].id, heap)
           ELSE IF r.exc # ""
           THEN /\ last' = Op("create_orthogonal", 0, PyNone, key, r.exc, 0)
                /\ UNCHANGED <<heap, orthoCache, returned, recent>>
           ELSE /\ heap' = Append(heap, r.val)
                /\ orthoCache' = lru_miss(orthoCache, key, Len(heap) + 1)
                /\ last' = Op("create_orthogonal", 0, PyNone, key, "", Len(heap) + 1)
                /\ Called("create_orthogonal", key, Len(heap) + 1, Append(heap, r.val))
        /\ UNCHANGED <<perspCache, rotated>>

\* create_perspective(*key) through its lru_cache
CreatePerspective(key) ==
    LET i == lru_index(perspCache, key)
        r == create_perspective(key[1], key[2], key[3], key[4], key[5], key[6], key[7])
    IN  /\ IF i # 0
           THEN /\ perspCache' = lru_hit(perspCache, i)
                /\ heap' = heap
                /\ last' = Op("create_perspective", 0, PyNone, key, "", perspCache[i].id)
                /\ Called("create_perspective", key, perspCache[i].id, heap)
           ELSE IF r.exc # ""
           THEN /\ last' = Op("create_perspective", 0, PyNone, key, r.exc, 0)
                /\ UNCHANGED <<heap, perspCache, returned, recent>>
           ELSE /\ heap' = Append(heap, r.val)
                /\ perspCache' = lru_miss(perspCache, key, Len(heap) + 1)
                /\ last' = Op("create_perspective", 0, PyNone, key, "", Len(heap) + 1)
                /\ Called("create_perspective", key, Len(heap) + 1, Append(heap, r.val))
        /\ UNCHANGED <<orthoCache, rotated>>

\* create_orthogonal.cache_clear()
ClearOrthogonal ==
    /\ orthoCache' = lru_clear(orthoCache)
    /\ recent' = [recent EXCEPT !.create_orthogonal = <<>>]
    /\ last' = Op("create_orthogonal.cache_clear", 0, PyNone, <<>>, "", 0)
    /\ UNCHANGED <<heap, perspCache, returned, rotated>>

\* create_perspective.cache_clear()
ClearPerspective ==
    /\ perspCache' = lru_clear(perspCache)
    /\ recent' = [recent EXCEPT !.create_perspective = <<>>]
    /\ last' = Op("create_perspective.cache_clear", 0, PyNone, <<>>, "", 0)
    /\ UNCHANGED <<heap, orthoCache, returned, rotated>>

\* ---------------------------------------------------------------- inputs

Sample1 == <<1, 2, 3, -1, -2, 3, 1, 0, 2, -3, 1, 2, 3, 1, -2, 1>>
Sample2 == <<2, -1, 0, 3, 0, 1, -2, 1, 3, 0, 1, -3, 2, -2, 3, 1>>
ZeroValues == <<0, 0, 0, 0, 0, 0, 0, 0, 0, 0, 0, 0, 0, 0, 0, 0>>

ConstructInputs ==
    {PyNone, PyTuple(Sample1), PyTuple(<<>>), PyTuple(<<1, 2, 3>>), PyList(Append(Sample1, 2)),
     PyInt(5)} \cup {Ref(j) : j \in 1..Len(heap)}
TranslateArgs == {<<1, 2, 3>>, <<0, 0, 0>>, <<-2, 0, 5>>}
ScaleArgs == {0, 2, -1}
Axes == {<<0, 0, 1>>, <<1, -1, 2>>}
NonMatrix == {PyInt(5), PyList(Sample1)}
Operands == {Ref(j) : j \in 1..Len(heap)} \cup NonMatrix
IAddOperands == {Ref(j) : j \in 1..Len(heap)} \cup {PyInt(5), PyList(<<7, 8>>), PyNone}
IMulOperands == {PyInt(2), PyInt(0), PyList(<<7, 8>>)}
AppendArgs == {9}
InsertArgs == {<<0, 9>>, <<-1, 9>>}
RemoveArgs == {0, 9}
SetItemArgs == {<<15, 7>>, <<3, 5>>}
DelItemArgs == {0, 15}
SetSliceInputs == {PyList(<<1, 2>>), PyInt(5)}
ReInitInputs == {PyNone, PyTuple(<<1, 2, 3>>)} \cup {Ref(j) : j \in 1..Len(heap)}
\* argument tuples whose projection has integer components, and one that divides by zero
OrthoArgs == {<<0, 1, 0, 1, 0, 1>>, <<-1, 1, -2, 0, 1, 3>>, <<1, 1, 0, 1, 0, 1>>}
\* argument tuples with fov 0: each ends in ZeroDivisionError
PerspArgs == {<<0, 1, 0, 1, 1, 2, 0>>, <<0, 1, 0, 0, 1, 2, 0>>}

\* ------------------------------------------------------- the program

\* one more operation, of at most n
Budget(n) == steps < n /\ steps' = steps + 1

DoConstruct == Budget(MaxSteps) /\ \E v \in ConstructInputs : Construct(v)
DoTranslate ==
    Budget(MaxSteps) /\ \E id \in 1..Len(heap), a \in TranslateArgs : Translate(id, a[1], a[2], a[3])
DoScale == Budget(MaxSteps) /\ \E id \in 1..Len(heap), v \in ScaleArgs : Scale(id, v)
DoRotate ==
    Budget(MaxSteps) /\ \E id \in 1..Len(heap), angle \in Angles, a \in Axes :
        Rotate(id, angle, a[1], a[2], a[3])
DoAdd == Budget(MaxSteps) /\ \E id \in 1..Len(heap), o \in Operands : Add(id, o)
DoSub == Budget(MaxSteps) /\ \E id \in 1..Len(heap), o \in Operands : Sub(id, o)
DoMul == Budget(MaxSteps) /\ \E id \in 1..Len(heap), o \in Operands : Mul(id, o)
DoMatMul == Budget(MaxSteps) /\ \E id \in 1..Len(heap), o \in Operands : MatMul(id, o)
DoIAdd == Budget(MaxSteps) /\ \E id \in 1..Len(heap), o \in IAddOperands : IAdd(id, o)
DoIMul == Budget(MaxSteps) /\ \E id \in 1..Len(heap), n \in IMulOperands : IMul(id, n)
DoAppend == Budget(MaxSteps) /\ \E id \in 1..Len(heap), v \in AppendArgs : ListAppend(id, v)
DoInsert ==
    Budget(MaxSteps) /\ \E id \in 1..Len(heap), a \in InsertArgs : ListInsert(id, a[1], a[2])
DoPop == Budget(MaxSteps) /\ \E id \in 1..Len(heap) : ListPop(id)
DoRemove == Budget(MaxSteps) /\ \E id \in 1..Len(heap), v \in RemoveArgs : ListRemove(id, v)
DoClear == Budget(MaxSteps) /\ \E id \in 1..Len(heap) : ListClear(id)
DoSort == Budget(MaxSteps) /\ \E id \in 1..Len(heap) : ListSort(id)
DoReverse == Budget(MaxSteps) /\ \E id \in 1..Len(heap) : ListReverse(id)
DoSetItem ==
    Budget(MaxSteps) /\ \E id \in 1..Len(heap), a \in SetItemArgs : SetItemAt(id, a[1], a[2])
DoDelItem == Budget(MaxSteps) /\ \E id \in 1..Len(heap), i \in DelItemArgs : DelItemAt(id, i)
DoSetSlice ==
    Budget(MaxSteps) /\ \E id \in 1..Len(heap), v \in SetSliceInputs : SetSlice(id, v)
DoReInit == Budget(MaxSteps) /\ \E id \in 1..Len(heap), v \in ReInitInputs : ReInit(id, v)
DoCreateOrthogonal == Budget(MaxSteps) /\ \E k \in OrthoArgs : CreateOrthogonal(k)
DoCreatePerspective == Budget(MaxSteps) /\ \E k \in PerspArgs : CreatePerspective(k)
DoClearOrthogonal == Budget(MaxSteps) /\ ClearOrthogonal
DoClearPerspective == Budget(MaxSteps) /\ ClearPerspective

Next ==
    \/ DoConstruct
    \/ DoTranslate
    \/ DoScale
    \/ DoRotate
    \/ DoAdd
    \/ DoSub
    \/ DoMul
    \/ DoMatMul
    \/ DoIAdd
    \/ DoIMul
    \/ DoAppend
    \/ DoInsert
    \/ DoPop
    \/ DoRemove
    \/ DoClear
    \/ DoSort
    \/ DoReverse
    \/ DoSetItem
    \/ DoDelItem
    \/ DoSetSlice
    \/ DoReInit
    \/ DoCreateOrthogonal
    \/ DoCreatePerspective
    \/ DoClearOrthogonal
    \/ DoClearPerspective

Spec == Init /\ [][Next]_vars


\* ------------------------------------------- the operators on given matrices

\* Three matrices the caller has constructed, then the binary operators.
SampleMats == {Mat4_init(PyNone).val, Mat4_init(PyTuple(ZeroValues)).val,
               Mat4_init(PyTuple(Sample1)).val, Mat4_init(PyTuple(Sample2)).val}
AlgOperands == {Ref(j) : j \in 1..Len(heap)} \cup {PyList(Sample2)}

InitAlg ==
    /\ heap \in {<<a, b, c>> : a \in SampleMats, b \in SampleMats, c \in SampleMats}
    /\ orthoCache = <<>>
    /\ perspCache = <<>>
    /\ last = NoOp
    /\ steps = 0
    /\ returned = {}
    /\ recent = [create_orthogonal |-> <<>>, create_perspective |-> <<>>]
    /\ rotated = {}

AlgAdd == Budget(MaxAlgSteps) /\ \E id \in 1..Len(heap), o \in AlgOperands : Add(id, o)
AlgSub == Budget(MaxAlgSteps) /\ \E id \in 1..Len(heap), o \in AlgOperands : Sub(id, o)
AlgMul == Budget(MaxAlgSteps) /\ \E id \in 1..Len(heap), o \in AlgOperands : Mul(id, o)
AlgMatMul == Budget(MaxAlgSteps) /\ \E id \in 1..Len(heap), o \in AlgOperands : MatMul(id, o)

NextAlg ==
    \/ AlgAdd
    \/ AlgSub
    \/ AlgMul
    \/ AlgMatMul

SpecAlg == InitAlg /\ [][NextAlg]_vars

\* ------------------------------------------- the in-place helpers on doubles

\* One matrix the caller holds, then translate, scale and rotate on it, at
\* angles whose cos and sin are not integers too.  The matrix is Mat4(), Mat4 of
\* 16 ints, or that one after two calls of pop().
Receivers64 == {f64_list(IdentityValues), f64_list(Sample1), f64_list(SubSeq(Sample1, 1, 14))}
\* the arguments angle, x, y, z of rotate
RotateArgs64 == {<<0, 0, 0, 1>>, <<90, 0, 0, 1>>, <<45, 1, -1, 2>>}

InitRot ==
    /\ heap \in {<<m>> : m \in Receivers64}
    /\ orthoCache = <<>>
    /\ perspCache = <<>>
    /\ last = NoOp
    /\ steps = 0
    /\ returned = {}
    /\ recent = [create_orthogonal |-> <<>>, create_perspective |-> <<>>]
    /\ rotated = {}

RotTranslate ==
    Budget(MaxRotSteps) /\ \E id \in 1..Len(heap), a \in {<<1, 2, 3>>} :
        Translate64(id, a[1], a[2], a[3])
RotScale == Budget(MaxRotSteps) /\ \E id \in 1..Len(heap), v \in {2} : Scale64(id, v)
RotRotate ==
    Budget(MaxRotSteps) /\ \E id \in 1..Len(heap), a \in RotateArgs64 :
        Rotate64(id, a[1], a[2], a[3], a[4])

NextRot ==
    \/ RotTranslate
    \/ RotScale
    \/ RotRotate

SpecRot == InitRot /\ [][NextRot]_vars

\* --------------------------------------------------- the factories' caches

\* A caller of create_orthogonal that asks for one projection (n = 0), and keeps
\* asking for it while the frustum depth takes new values n = 1, 2, ... (a
\* sequence of resizes); while it holds at most MaxEarly matrices it may clear
\* the cache and start again.
OrthoKey(n) == <<0, 1, 0, 1, n, n + 1>>

\* the number of the next projection not asked for yet
NextFresh(rec, probe) == Cardinality({i \in 1..Len(rec) : rec[i].key # probe}) + 1

\* the projections the caller may ask for next: the first one again, or a new one
CacheInputs(rec, probe) ==
    {0} \cup (IF rec = <<>> THEN {} ELSE {NextFresh(rec, probe)} \cap 1..MaxFresh)

CacheOrthogonal ==
    /\ \E n \in CacheInputs(recent.create_orthogonal, OrthoKey(0)) :
          CreateOrthogonal(OrthoKey(n))
    /\ UNCHANGED steps

CacheClear ==
    /\ Len(heap) <= MaxEarly
    /\ ClearOrthogonal
    /\ UNCHANGED steps

NextCache ==
    \/ CacheOrthogonal
    \/ CacheClear

SpecCache == Init /\ [][NextCache]_vars


\* ------------------------------------------------------------- properties

Factories == {"create_orthogonal", "create_perspective"}
Elementwise == {"add", "sub", "mul"}
BinaryOps == Elementwise \cup {"matmul"}
TypeMismatch == {AssertAdd, AssertSub, AssertMul}
InvalidArgument == AssertValues

\* component i of a matrix
Comp(m, i) == m[i + 1]


\* C1: a factory call with the argument tuple of an earlier call to the same
\* factory returns a matrix whose 16 components are those the earlier call
\* returned at the moment it returned, whatever the caller did in between.
C1_RepeatedCallReturnsEqualComponents ==
    (last.op \in Factories /\ last.exc = "") =>
        \A e \in returned :
            (e.fn = last.op /\ e.key = last.args) => e.comps = heap[last.result]

\* C2 as stated: a call with the argument tuple of an earlier call to the same
\* factory returns the instance that call returned, however many other tuples
\* were passed in between.
C2_NeverEvicted ==
    (last.op \in Factories /\ last.exc = "") =>
        \A e \in returned :
            (e.fn = last.op /\ e.key = last.args) => e.id = last.result

\* C2 as amended: each factory keeps its 128 most recently used entries, until
\* its cache_clear() is called.  A call with a tuple K that returns, returns the
\* instance the latest earlier call with K returned exactly when the cache was
\* not cleared since that call and the calls that returned since that call had
\* fewer than 128 distinct other tuples; otherwise it returns a new instance.
C2_LruOf128 ==
    [][(last'.op \in Factories /\ last'.exc = "") =>
          LET rec == recent[last'.op]
              i == lru_index(rec, last'.args)
          IN  IF i = 0 THEN last'.result = Len(heap) + 1
              ELSE IF Len(rec) - i < 128 THEN last'.result = rec[i].id
              ELSE last'.result = Len(heap) + 1 /\ last'.result # rec[i].id]_vars

\* a hit on the first projection with the cache full and 127 others passed since
C2_Witness ==
    /\ last.op = "create_orthogonal"
    /\ last.args = OrthoKey(0)
    /\ last.result = 1
    /\ Len(orthoCache) = 128
    /\ Len(heap) = 128

\* C3: matrix-multiply(A, B) returns a new matrix R of 16 components with
\* R[4r + c] = sum over k in 0..3 of A[4r + k] * B[4k + c].
C3_MatMulIsRowByColumn ==
    (last.op = "matmul" /\ last.other.tag = "Mat4") =>
        /\ last.exc = ""
        /\ last.result = Len(heap)
        /\ last.result \notin {last.recv, last.other.id}
        /\ Len(heap[last.result]) = 16
        /\ \A r \in 0..3, c \in 0..3 :
              Comp(heap[last.result], 4 * r + c) =
                  Comp(heap[last.recv], 4 * r + 0) * Comp(heap[last.other.id], 4 * 0 + c)
                + Comp(heap[last.recv], 4 * r + 1) * Comp(heap[last.other.id], 4 * 1 + c)
                + Comp(heap[last.recv], 4 * r + 2) * Comp(heap[last.other.id], 4 * 2 + c)
                + Comp(heap[last.recv], 4 * r + 3) * Comp(heap[last.other.id], 4 * 3 + c)

\* two dense matrices that do not commute have been multiplied
C3_Witness ==
    /\ last.op = "matmul"
    /\ last.exc = ""
    /\ heap[last.recv] = Sample1
    /\ heap[last.other.id] = Sample2
    /\ Comp(heap[last.result], 0) = 9

\* C4: with I the matrix constructed with no arguments, M @ I and I @ M equal M
\* in all 16 components.
C4_IdentityIsNeutral ==
    (last.op = "matmul" /\ last.exc = "") =>
        LET I == <<1, 0, 0, 0, 0, 1, 0, 0, 0, 0, 1, 0, 0, 0, 0, 1>>
        IN  /\ Mat4_init(PyNone).val = I
            /\ heap[last.other.id] = I => heap[last.result] = heap[last.recv]
            /\ heap[last.recv] = I => heap[last.result] = heap[last.other.id]

\* a matrix that is not symmetric has been multiplied by the identity
C4_Witness ==
    /\ last.op = "matmul"
    /\ last.exc = ""
    /\ heap[last.recv] = Mat4_init(PyNone).val
    /\ heap[last.other.id] = Sample2
    /\ heap[last.result] = Sample2

\* C5: Mat4() is the identity, Mat4 of 16 values holds them in order, Mat4 of a
\* value list of any other length fails with the InvalidArgument assertion and
\* creates no matrix; every matrix that exists has 16 components.
C5_Construct ==
    /\ [](\A id \in 1..Len(heap) : Len(heap[id]) = 16)
    /\ []((last.op = "Mat4" /\ last.other.tag # "int") =>
            LET values == Deref(last.other).vals
            IN  IF last.other.tag = "None"
                THEN /\ last.exc = ""
                     /\ \A i \in 0..15 :
                           Comp(heap[last.result], i) = IF i \in {0, 5, 10, 15} THEN 1 ELSE 0
                ELSE IF Len(values) = 16
                THEN /\ last.exc = ""
                     /\ \A i \in 0..15 : Comp(heap[last.result], i) = values[i + 1]
                ELSE /\ last.exc = InvalidArgument
                     /\ last.result = 0)
    /\ [][last'.op = "Mat4" =>
            IF last'.exc = ""
            THEN last'.result = Len(heap) + 1 /\ Len(heap') = Len(heap) + 1
            ELSE heap' = heap]_vars

\* C6: for any receiver and any arguments, translate(x, y, z) adds x, y, z to
\* components 12, 13, 14 and scale(factor) multiplies components 0, 5, 10 by
\* factor; either returns leaving the other thirteen components of the receiver,
\* and every other matrix, unchanged.
C6_InPlaceFrame ==
    [][/\ last'.op = "translate" =>
             /\ last'.exc = ""
             /\ DOMAIN heap' = DOMAIN heap
             /\ \A id \in DOMAIN heap : id # last'.recv => heap'[id] = heap[id]
             /\ Len(heap'[last'.recv]) = Len(heap[last'.recv])
             /\ \A i \in 0..(Len(heap[last'.recv]) - 1) :
                   Comp(heap'[last'.recv], i) =
                       Comp(heap[last'.recv], i)
                         + (CASE i = 12 -> last'.args[1]
                              [] i = 13 -> last'.args[2]
                              [] i = 14 -> last'.args[3]
                              [] OTHER -> 0)
       /\ last'.op = "scale" =>
             /\ last'.exc = ""
             /\ DOMAIN heap' = DOMAIN heap
             /\ \A id \in DOMAIN heap : id # last'.recv => heap'[id] = heap[id]
             /\ Len(heap'[last'.recv]) = Len(heap[last'.recv])
             /\ \A i \in 0..(Len(heap[last'.recv]) - 1) :
                   Comp(heap'[last'.recv], i) =
                       IF i \in {0, 5, 10}
                       THEN Comp(heap[last'.recv], i) * last'.args[1]
                       ELSE Comp(heap[last'.recv], i)]_vars

\* row r, column c of a matrix of doubles (a component the matrix lacks adds
\* nothing to a product)
Cell64(m, r, c) == IF 4 * r + c < Len(m) THEN m[4 * r + c + 1] ELSE f64_zero

\* the product of the spec on doubles: R[4r + c] = sum over k of
\* A[4r + k] * B[4k + c], the terms added in the order of k
Product64(A, B) ==
    [n \in 1..16 |->
        LET r == (n - 1) \div 4
            c == (n - 1) % 4
        IN  f64_add(f64_add(f64_add(f64_mul(Cell64(A, r, 0), Cell64(B, 0, c)),
                                    f64_mul(Cell64(A, r, 1), Cell64(B, 1, c))),
                            f64_mul(Cell64(A, r, 2), Cell64(B, 2, c))),
                    f64_mul(Cell64(A, r, 3), Cell64(B, 3, c)))]

\* the rotation matrix of the spec, from the doubles c and s and the axis x, y,
\* z, with t = 1 - c.  (The axes of RotateArgs64 have components 0, 1, -1, 2, by which
\* a double is multiplied without rounding, so that t*x*y is the same double in
\* whatever order it is multiplied.)
RotationOfSpec64(c, s, x, y, z) ==
    LET t == f64_sub(f64_from_int(1), c)
        X == f64_from_int(x)
        Y == f64_from_int(y)
        Z == f64_from_int(z)
        txx == f64_mul(f64_mul(t, X), X)
        txy == f64_mul(f64_mul(t, X), Y)
        txz == f64_mul(f64_mul(t, X), Z)
        tyy == f64_mul(f64_mul(t, Y), Y)
        tyz == f64_mul(f64_mul(t, Y), Z)
        tzz == f64_mul(f64_mul(t, Z), Z)
        O == f64_zero
    IN  <<f64_add(c, txx), f64_add(txy, f64_mul(s, Z)), f64_sub(txz, f64_mul(s, Y)), O,
          f64_sub(txy, f64_mul(s, Z)), f64_add(c, tyy), f64_add(tyz, f64_mul(s, X)), O,
          f64_add(txz, f64_mul(s, Y)), f64_sub(tyz, f64_mul(s, X)), f64_add(c, tzz), O,
          O, O, O, O>>

\* C7: rotate(angle, x, y, z) replaces all 16 components of the receiver by those
\* of receiver_before @ R, R the matrix of the spec built from c = cos(angle),
\* s = sin(angle), t = 1 - c and the axis, with a fourth row of zeros.  The R of
\* c = 0, s = 1 and axis (0, 0, 1) applied to the identity gives rows (0,1,0,0),
\* (-1,0,0,0), (0,0,1,0), (0,0,0,0); rotate by 90 degrees about (0, 0, 1), where
\* s is 1 and c is the double cos(radians(90)), leaves the identity with these
\* rows and c at the two places of c + t*x*x and c + t*y*y.
C7_RotatePostMultiplies ==
    [][last'.op = "rotate" =>
          LET a == last'.args
              before == heap[last'.recv]
              after == heap'[last'.recv]
              I == f64_list(<<1, 0, 0, 0, 0, 1, 0, 0, 0, 0, 1, 0, 0, 0, 0, 1>>)
              c == cos64(a[1])
              s == sin64(a[1])
          IN  /\ last'.exc = ""
              /\ Len(after) = 16
              /\ \A R \in {RotationOfSpec64(c, s, a[2], a[3], a[4])} :
                    after = Product64(before, R)
              /\ Product64(I, RotationOfSpec64(f64_from_int(0), f64_from_int(1), 0, 0, 1))
                    = f64_list(<<0, 1, 0, 0, -1, 0, 0, 0, 0, 0, 1, 0, 0, 0, 0, 0>>)
              /\ (a = <<90, 0, 0, 1>> /\ before = I) =>
                    /\ s = f64_from_int(1)
                    /\ after = <<c, f64_from_int(1), f64_zero, f64_zero,
                                 f64_from_int(-1), c, f64_zero, f64_zero,
                                 f64_zero, f64_zero, f64_from_int(1), f64_zero,
                                 f64_zero, f64_zero, f64_zero, f64_zero>>]_vars

\* Mat4 of the 16 ints of Sample1 after rotate by 45 degrees about (1, -1, 2):
\* every entry of R is used, and component 0 of the result is the double
\* -2.7781745930520225 and component 12 the double 1.5355339059327378
C7_Witness ==
    /\ last.op = "rotate"
    /\ last.args = <<45, 1, -1, 2>>
    /\ steps = 1
    /\ Comp(heap[last.recv], 0) = [sign |-> -1, exp |-> -51, mant |-> <<9330, 10103, 6969, 1422>>]
    /\ Comp(heap[last.recv], 12) = [sign |-> 1, exp |-> -52, mant |-> <<5504, 248, 6336, 1572>>]
    /\ Comp(heap[last.recv], 15) = f64_zero

\* C8 as stated: add, subtract and multiply are componentwise, each of the three
\* is associative, and the all-zero matrix is the identity under add.
C8_AllThreeAssociative ==
    (last.op \in Elementwise /\ last.exc = "") =>
        LET A == heap[last.recv]
            B == heap[last.other.id]
            R == heap[last.result]
        IN  \A id \in 1..Len(heap) :
               LET C == PyMat4(heap[id])
               IN  CASE last.op = "add" ->
                          Mat4_add(R, C).val = Mat4_add(A, PyMat4(Mat4_add(B, C).val)).val
                     [] last.op = "sub" ->
                          Mat4_sub(R, C).val = Mat4_sub(A, PyMat4(Mat4_sub(B, C).val)).val
                     [] last.op = "mul" ->
                          Mat4_mul(R, C).val = Mat4_mul(A, PyMat4(Mat4_mul(B, C).val)).val

\* C8 as amended: on matrices of 16 components add, subtract and multiply are
\* componentwise; add and multiply are associative, and (A - B) - C is
\* A - (B + C); the all-zero matrix is the identity under add.
C8_Elementwise ==
    /\ \A id \in 1..Len(heap) :
          /\ Mat4_add(heap[id], PyMat4(ZeroValues)).val = heap[id]
          /\ Mat4_add(ZeroValues, PyMat4(heap[id])).val = heap[id]
    /\ (last.op \in Elementwise /\ last.exc = "") =>
          LET A == heap[last.recv]
              B == heap[last.other.id]
              R == heap[last.result]
          IN  /\ Len(R) = 16
              /\ last.result = Len(heap)
              /\ \A i \in 0..15 :
                    Comp(R, i) = CASE last.op = "add" -> Comp(A, i) + Comp(B, i)
                                   [] last.op = "sub" -> Comp(A, i) - Comp(B, i)
                                   [] last.op = "mul" -> Comp(A, i) * Comp(B, i)
              /\ (last.op = "add" /\ B = ZeroValues) => R = A
              /\ (last.op = "add" /\ A = ZeroValues) => R = B
              /\ \A id \in 1..Len(heap) :
                    LET C == PyMat4(heap[id])
                    IN  CASE last.op = "add" ->
                               Mat4_add(R, C).val = Mat4_add(A, PyMat4(Mat4_add(B, C).val)).val
                          [] last.op = "sub" ->
                               Mat4_sub(R, C).val = Mat4_sub(A, PyMat4(Mat4_add(B, C).val)).val
                          [] last.op = "mul" ->
                               Mat4_mul(R, C).val = Mat4_mul(A, PyMat4(Mat4_mul(B, C).val)).val

\* two different dense matrices have been multiplied elementwise, a third one at hand
C8_Witness ==
    /\ last.op = "mul"
    /\ last.exc = ""
    /\ heap[last.recv] = Sample1
    /\ heap[last.other.id] = Sample2
    /\ \E id \in 1..Len(heap) : heap[id] \notin {Sample1, Sample2, ZeroValues, heap[last.result]}

\* C9: a binary operator given an operand that is not a Mat4 ends in its TypeMismatch
\* assertion, returns no matrix and changes no matrix; given a Mat4 it returns a
\* new matrix, distinct from both operands, and changes neither of them.
C9_BinaryOperators ==
    [][last'.op \in BinaryOps =>
          IF last'.other.tag # "Mat4"
          THEN /\ last'.exc \in TypeMismatch
               /\ last'.result = 0
               /\ heap' = heap
          ELSE /\ last'.exc = ""
               /\ last'.result = Len(heap) + 1
               /\ last'.result \notin {last'.recv, last'.other.id}
               /\ Len(heap') = Len(heap) + 1
               /\ \A id \in 1..Len(heap) : heap'[id] = heap[id]]_vars

FourthColumnZero64(m) ==
    /\ Len(m) = 16
    /\ Comp(m, 3) = f64_zero
    /\ Comp(m, 7) = f64_zero
    /\ Comp(m, 11) = f64_zero
    /\ Comp(m, 15) = f64_zero

\* C10: for any receiver, angle and axis, once rotate has been applied to a
\* matrix its components 3, 7, 11 and 15 are 0, and they are 0 in every state
\* reached by further translate, scale and rotate calls on it.
C10_RotateAbsorbsFourthColumn ==
    \A id \in rotated : FourthColumnZero64(heap[id])

\* the identity after rotate by 90 degrees about (0, 0, 1) and then scale(2),
\* translate(1, 2, 3) and scale(2): component 15 is 0, not 1
C10_Witness ==
    /\ last.op = "scale"
    /\ last.args = <<2>>
    /\ last.exc = ""
    /\ steps = 4
    /\ last.recv \in rotated
    /\ heap[last.recv] =
          <<f64_mul(cos64(90), f64_from_int(4)), f64_from_int(1), f64_zero, f64_zero,
            f64_from_int(-1), f64_mul(cos64(90), f64_from_int(4)), f64_zero, f64_zero,
            f64_zero, f64_zero, f64_from_int(4), f64_zero,
            f64_from_int(1), f64_from_int(2), f64_from_int(3), f64_zero>>

=============================================================================
